---- MODULE Spec2Model ----
(***************************************************************************)
(* A model of the seldon Othello engine core: the bitboard primitives of   *)
(* src/src/ccode/cbitboard.c, the random playout of                        *)
(* src/src/ccode/mcts_utils.pyx and the endgame solver of                  *)
(* src/src/ccode/csolver.c.                                                *)
(*                                                                         *)
(* A uint64_t bitboard is modelled as the set of its set bit indices, a    *)
(* subset of 0..63: & is \cap, | is \cup, ^ is symmetric difference, ~ is  *)
(* complement in 0..63, and a shift moves every index and drops the ones   *)
(* that leave the 64-bit word.  Bit b is row b \div 8, column b % 8.       *)
(***************************************************************************)
EXTENDS Integers, Sequences, FiniteSets, TLC

\* ------------------------------------------------------------------------
\* 64-bit words
\* ------------------------------------------------------------------------
BOARD_SIZE == 8
WordBits == 64
Squares == 0 .. (WordBits - 1)

\* x << k and x >> k on uint64_t: bits shifted out of the word are lost.
shl(x, k) == {b + k : b \in x} \cap Squares
shr(x, k) == {b - k : b \in x} \cap Squares
bnot(x) == Squares \ x
\* Mutant: | written for ^.
bxor_as_or(x, y) == x \cup y
bxor(x, y) == (x \ y) \cup (y \ x)

c_popcount_64(x) == Cardinality(x)

\* 0xfefefefefefefefe and 0x7f7f7f7f7f7f7f7f
notAFile == {b \in Squares : b % BOARD_SIZE # 0}
notHFile == {b \in Squares : b % BOARD_SIZE # BOARD_SIZE - 1}

\* ------------------------------------------------------------------------
\* Occluded fills (Kogge-Stone) and one-step shifts
\* ------------------------------------------------------------------------
\* The three doubling steps shared by the eight fills, for a fill that
\* shifts right by k, 2k, 4k.  pro is already masked by the caller.
FillRight(gen, pro, k) ==
    LET g1 == gen \cup (pro \cap shr(gen, k))
        p1 == pro \cap shr(pro, k)
        g2 == g1 \cup (p1 \cap shr(g1, 2 * k))
        p2 == p1 \cap shr(p1, 2 * k)
    IN  g2 \cup (p2 \cap shr(g2, 4 * k))

FillLeft(gen, pro, k) ==
    LET g1 == gen \cup (pro \cap shl(gen, k))
        p1 == pro \cap shl(pro, k)
        g2 == g1 \cup (p1 \cap shl(g1, 2 * k))
        p2 == p1 \cap shl(p1, 2 * k)
    IN  g2 \cup (p2 \cap shl(g2, 4 * k))

soutOccl(gen, pro) == FillRight(gen, pro, 8)
sout_one(gen) == shr(gen, 8)
nortOccl(gen, pro) == FillLeft(gen, pro, 8)
nort_one(gen) == shl(gen, 8)
eastOccl(gen, pro) == FillLeft(gen, pro \cap notAFile, 1)
east_one(gen) == shl(gen \cap notAFile, 1)
noEaOccl(gen, pro) == FillLeft(gen, pro \cap notAFile, 9)
noea_one(gen) == shl(gen \cap notAFile, 9)
soEaOccl(gen, pro) == FillRight(gen, pro \cap notAFile, 7)
soea_one(gen) == shr(gen \cap notAFile, 7)
westOccl(gen, pro) == FillRight(gen, pro \cap notHFile, 1)
west_one(gen) == shr(gen \cap notHFile, 1)
soWeOccl(gen, pro) == FillRight(gen, pro \cap notHFile, 9)
sowe_one(gen) == shr(gen \cap notHFile, 9)
noWeOccl(gen, pro) == FillLeft(gen, pro \cap notHFile, 7)
nowe_one(gen) == shl(gen \cap notHFile, 7)

\* ------------------------------------------------------------------------
\* Mid-level and top-level bitboard operations
\* ------------------------------------------------------------------------
MinBit(x) == CHOOSE b \in x : \A c \in x : b <= c

\* bitboard & -bitboard: the lowest set bit alone, 0 for 0.
c_extract_disk(bitboard) == IF bitboard = {} THEN {} ELSE {MinBit(bitboard)}

\* Mutant: the last term pairs two fills of the same direction.
c_resolve_move_mispaired(player, opp, new_disk) ==
    (soutOccl(player, opp) \cap nortOccl(new_disk, opp))
    \cup (nortOccl(player, opp) \cap soutOccl(new_disk, opp))
    \cup (eastOccl(player, opp) \cap westOccl(new_disk, opp))
    \cup (westOccl(player, opp) \cap eastOccl(new_disk, opp))
    \cup (soWeOccl(player, opp) \cap noEaOccl(new_disk, opp))
    \cup (noEaOccl(player, opp) \cap soWeOccl(new_disk, opp))
    \cup (soEaOccl(player, opp) \cap noWeOccl(new_disk, opp))
    \cup (noWeOccl(player, opp) \cap noWeOccl(new_disk, opp))

c_resolve_move(player, opp, new_disk) ==
    (soutOccl(player, opp) \cap nortOccl(new_disk, opp))
    \cup (nortOccl(player, opp) \cap soutOccl(new_disk, opp))
    \cup (eastOccl(player, opp) \cap westOccl(new_disk, opp))
    \cup (westOccl(player, opp) \cap eastOccl(new_disk, opp))
    \cup (soWeOccl(player, opp) \cap noEaOccl(new_disk, opp))
    \cup (noEaOccl(player, opp) \cap soWeOccl(new_disk, opp))
    \cup (soEaOccl(player, opp) \cap noWeOccl(new_disk, opp))
    \cup (noWeOccl(player, opp) \cap soEaOccl(new_disk, opp))

c_make_singleton_bitboard(x, y) == {(7 - y) * 8 + (7 - x)}

\* Mutant: the west moves are not masked with _notHFile.
c_find_moves_west_unmasked(gen, pro) ==
    LET empty == bnot(gen \cup pro)
    IN  (shr(soutOccl(gen, pro) \cap pro, 8) \cap empty)
        \cup (shl(nortOccl(gen, pro) \cap pro, 8) \cap empty)
        \cup (shl(eastOccl(gen, pro) \cap pro, 1) \cap notAFile \cap empty)
        \cup (shr(westOccl(gen, pro) \cap pro, 1) \cap empty)
        \cup (shr(soEaOccl(gen, pro) \cap pro, 7) \cap notAFile \cap empty)
        \cup (shr(soWeOccl(gen, pro) \cap pro, 9) \cap notHFile \cap empty)
        \cup (shl(noEaOccl(gen, pro) \cap pro, 9) \cap notAFile \cap empty)
        \cup (shl(noWeOccl(gen, pro) \cap pro, 7) \cap notHFile \cap empty)

\* Mutant: the south moves are not masked with empty.
c_find_moves_south_occupied(gen, pro) ==
    LET empty == bnot(gen \cup pro)
    IN  shr(soutOccl(gen, pro) \cap pro, 8)
        \cup (shl(nortOccl(gen, pro) \cap pro, 8) \cap empty)
        \cup (shl(eastOccl(gen, pro) \cap pro, 1) \cap notAFile \cap empty)
        \cup (shr(westOccl(gen, pro) \cap pro, 1) \cap notHFile \cap empty)
        \cup (shr(soEaOccl(gen, pro) \cap pro, 7) \cap notAFile \cap empty)
        \cup (shr(soWeOccl(gen, pro) \cap pro, 9) \cap notHFile \cap empty)
        \cup (shl(noEaOccl(gen, pro) \cap pro, 9) \cap notAFile \cap empty)
        \cup (shl(noWeOccl(gen, pro) \cap pro, 7) \cap notHFile \cap empty)

c_find_moves(gen, pro) ==
    LET empty == bnot(gen \cup pro)
    IN  (shr(soutOccl(gen, pro) \cap pro, 8) \cap empty)
        \cup (shl(nortOccl(gen, pro) \cap pro, 8) \cap empty)
        \cup (shl(eastOccl(gen, pro) \cap pro, 1) \cap notAFile \cap empty)
        \cup (shr(westOccl(gen, pro) \cap pro, 1) \cap notHFile \cap empty)
        \cup (shr(soEaOccl(gen, pro) \cap pro, 7) \cap notAFile \cap empty)
        \cup (shr(soWeOccl(gen, pro) \cap pro, 9) \cap notHFile \cap empty)
        \cup (shl(noEaOccl(gen, pro) \cap pro, 9) \cap notAFile \cap empty)
        \cup (shl(noWeOccl(gen, pro) \cap pro, 7) \cap notHFile \cap empty)

\* The constants of c_stability: 255, 18374686479671623680,
\* 72340172838076673, 9259542123273814144 and 0x8100000000000081.
top == 0 .. 7
bot == 56 .. 63
lft == {b \in Squares : b % 8 = 0}
rht == {b \in Squares : b % 8 = 7}
Corners == {0, 7, 56, 63}

\* The four line masks of c_stability.
stab_vrt(pcs) == nortOccl(bot \cap pcs, pcs) \cap soutOccl(top \cap pcs, pcs)
stab_hrz(pcs) == eastOccl(lft \cap pcs, pcs) \cap westOccl(rht \cap pcs, pcs)
stab_dg1(pcs) ==
    noEaOccl((bot \cup lft) \cap pcs, pcs) \cap soWeOccl((top \cup rht) \cap pcs, pcs)
stab_dg2(pcs) ==
    noWeOccl((bot \cup rht) \cap pcs, pcs) \cap soEaOccl((top \cup lft) \cap pcs, pcs)

\* Mutant: one protected axis is enough, | written for & between the axes.
stab_expand_any_axis(stb, player, vrt, hrz, dg1, dg2) ==
    stb \cup (player
              \cap ((nort_one(stb) \cup sout_one(stb) \cup vrt)
                    \cup (east_one(stb) \cup west_one(stb) \cup hrz)
                    \cup (noea_one(stb) \cup sowe_one(stb) \cup dg1)
                    \cup (nowe_one(stb) \cup soea_one(stb) \cup dg2)))

\* One pass of the expansion loop of c_stability.
stab_expand(stb, player, vrt, hrz, dg1, dg2) ==
    stb \cup (player
              \cap (nort_one(stb) \cup sout_one(stb) \cup vrt)
              \cap (east_one(stb) \cup west_one(stb) \cup hrz)
              \cap (noea_one(stb) \cup sowe_one(stb) \cup dg1)
              \cap (nowe_one(stb) \cup soea_one(stb) \cup dg2))

RECURSIVE stab_loop(_, _, _, _, _, _, _)
stab_loop(i, stb, player, vrt, hrz, dg1, dg2) ==
    IF i >= 16 THEN stb
    ELSE stab_loop(i + 1, stab_expand(stb, player, vrt, hrz, dg1, dg2),
                   player, vrt, hrz, dg1, dg2)

c_stability(player, opp) ==
    LET pcs == player \cup opp
        vrt == stab_vrt(pcs)
        hrz == stab_hrz(pcs)
        dg1 == stab_dg1(pcs)
        dg2 == stab_dg2(pcs)
        stb == (Corners \cup (vrt \cap hrz \cap dg1 \cap dg2)) \cap player
    IN  stab_loop(0, stb, player, vrt, hrz, dg1, dg2)

\* ------------------------------------------------------------------------
\* Random playout helpers (mcts_utils.pyx)
\* ------------------------------------------------------------------------
\* select_bit(bitboard, rank): the 1-based position, counted from the least
\* significant bit, of the rank-th set bit.
select_bit(bitboard, rank) ==
    1 + (CHOOSE b \in bitboard : Cardinality({c \in bitboard : c < b}) = rank - 1)

\* random_select with loc_idx standing for rand() % n_moves.
random_select(bitboard, loc_idx) ==
    LET move_loc == select_bit(bitboard, loc_idx + 1)
    IN  {move_loc - 1}

\* Mutant: same_player is ignored.
rollout_score_no_swap(active, other, same) ==
    LET score == c_popcount_64(active) - c_popcount_64(other)
    IN  IF score = 0 THEN "DRAW"
        ELSE IF score > 0 THEN "ACTIVE"
        ELSE "OPPONENT"

\* The scoring after the playout loop.
rollout_score(active, other, same) ==
    LET score == c_popcount_64(active) - c_popcount_64(other)
    IN  IF score = 0 THEN "DRAW"
        ELSE IF (score > 0) = same THEN "ACTIVE"
        ELSE "OPPONENT"

\* ------------------------------------------------------------------------
\* Endgame solver (csolver.c)
\* ------------------------------------------------------------------------
FASTEST_FIRST_CUTOFF == 5
MAX_MOVES == 32
INFINITY == 999
MAX_SCORE == 64
BENCHMARK == FALSE
INITIAL_BOUND == IF BENCHMARK THEN MAX_SCORE ELSE 1

\* Mutant: the difference is taken the other way round.
evaluate_reversed(p, o) == c_popcount_64(o) - c_popcount_64(p)

\* The body of evaluate under #ifdef BENCHMARK: "winner gets empties".
evaluate_benchmark(p, o) ==
    LET score == c_popcount_64(p) - c_popcount_64(o)
        empties == c_popcount_64(bnot(p) \cap bnot(o))
    IN  IF score > 0 THEN score + empties ELSE score - empties

evaluate(p, o) ==
    IF BENCHMARK
    THEN evaluate_benchmark(p, o)
    ELSE c_popcount_64(p) - c_popcount_64(o)

mobility(p, o) == c_popcount_64(c_find_moves(p, o))

\* The loop of move_index: shifts until bit 0 is set.
move_index(bitboard) == MinBit(bitboard)

\* The child-generation loop shared by c_solve_game, negamax and
\* negamax_fastest_first: one record per move, lowest bit first.
RECURSIVE gen_children(_, _, _)
gen_children(p, o, moves) ==
    IF moves = {} THEN <<>>
    ELSE LET new_move == c_extract_disk(moves)
             new_disks == c_resolve_move(p, o, new_move)
             player_board == bxor(p, new_disks) \cup new_move
             opp_board == bxor(o, new_disks)
         IN  <<[new_move |-> new_move,
                player_board |-> player_board,
                opp_board |-> opp_board,
                opp_mobility |-> mobility(opp_board, player_board)]>>
             \o gen_children(p, o, moves \ new_move)

\* The inner selection loop of negamax_fastest_first: the first index whose
\* mobility is below every earlier one, -1 when none is below MAX_MOVES + 1.
best_index_of(opp_mobilities) ==
    LET n == Len(opp_mobilities)
        below == {j \in 1 .. n : opp_mobilities[j] < MAX_MOVES + 1}
    IN  IF below = {} THEN -1
        ELSE (CHOOSE j \in below :
                 \A k \in below : opp_mobilities[j] < opp_mobilities[k]
                                  \/ (opp_mobilities[j] = opp_mobilities[k] /\ j <= k)) - 1

\* A search whose behaviour is undefined returns one of two marks in place of
\* a score: a write past the end of the scratch arrays player_boards,
\* opp_boards and opp_mobilities (n_moves reaches MAX_MOVES), or an access
\* at best_index = -1.  Both lie outside the range of scores.
SCRATCH_OVERFLOW == 2 * INFINITY
BAD_INDEX == 3 * INFINITY
Faults == {SCRATCH_OVERFLOW, BAD_INDEX}

\* The negation applied to the value of a recursive call.
neg(v) == IF v \in Faults THEN v ELSE 0 - v

RECURSIVE negamax(_, _, _, _, _)
RECURSIVE negamax_loop(_, _, _, _, _)
\* The scoring loop of negamax over children[i..], with the running alpha
\* and max_score.
negamax_loop(children, i, alpha, beta, max_score) ==
    IF i > Len(children) THEN max_score
    ELSE LET score == neg(negamax(children[i].opp_board, children[i].player_board,
                                  0 - beta, 0 - alpha, FALSE))
         IN  IF score \in Faults THEN score
             ELSE IF score > max_score
             THEN IF score > alpha
                  THEN IF score >= beta THEN score
                       ELSE negamax_loop(children, i + 1, score, beta, score)
                  ELSE negamax_loop(children, i + 1, alpha, beta, score)
             ELSE negamax_loop(children, i + 1, alpha, beta, max_score)

\* Mutant: the score of a skipped turn is not negated.
negamax_pass_not_negated(p, o, alpha, beta, passed) ==
    LET moves == c_find_moves(p, o)
    IN  IF moves = {}
        THEN IF passed THEN evaluate(p, o)
             ELSE negamax(o, p, 0 - beta, 0 - alpha, TRUE)
        ELSE LET children == gen_children(p, o, moves)
             IN  IF Len(children) > MAX_MOVES THEN SCRATCH_OVERFLOW
                 ELSE negamax_loop(children, 1, alpha, beta, 0 - INFINITY)

negamax(p, o, alpha, beta, passed) ==
    LET moves == c_find_moves(p, o)
    IN  IF moves = {}
        THEN IF passed THEN evaluate(p, o)
             ELSE neg(negamax(o, p, 0 - beta, 0 - alpha, TRUE))
        ELSE LET children == gen_children(p, o, moves)
             IN  IF Len(children) > MAX_MOVES THEN SCRATCH_OVERFLOW
                 ELSE negamax_loop(children, 1, alpha, beta, 0 - INFINITY)

RECURSIVE negamax_fastest_first(_, _, _, _, _, _)
RECURSIVE fastest_first_loop(_, _, _, _, _, _, _)
\* The selection loop of negamax_fastest_first: iteration i of n_moves, with
\* the mobilities of the children already searched overwritten.
fastest_first_loop(children, opp_mobilities, i, alpha, beta, max_score, depth) ==
    IF i >= Len(children) THEN max_score
    ELSE LET best_index == best_index_of(opp_mobilities)
         IN  IF best_index < 0 THEN BAD_INDEX
             ELSE
             LET c == children[best_index + 1]
                 marked == [opp_mobilities EXCEPT ![best_index + 1] = MAX_MOVES + 1]
                 score == neg(negamax_fastest_first(c.opp_board, c.player_board,
                                                    0 - beta, 0 - alpha, FALSE,
                                                    depth - 1))
             IN  IF score \in Faults THEN score
                 ELSE IF score > max_score
                 THEN IF score > alpha
                      THEN IF score >= beta THEN score
                           ELSE fastest_first_loop(children, marked, i + 1, score,
                                                   beta, score, depth)
                      ELSE fastest_first_loop(children, marked, i + 1, alpha, beta,
                                              score, depth)
                 ELSE fastest_first_loop(children, marked, i + 1, alpha, beta,
                                         max_score, depth)

negamax_fastest_first(p, o, alpha, beta, passed, depth) ==
    IF depth < FASTEST_FIRST_CUTOFF THEN negamax(p, o, alpha, beta, passed)
    ELSE LET moves == c_find_moves(p, o)
         IN  IF moves = {}
             THEN IF passed THEN evaluate(p, o)
                  ELSE neg(negamax_fastest_first(o, p, 0 - beta, 0 - alpha, TRUE,
                                                 depth))
             ELSE LET children == gen_children(p, o, moves)
                  IN  IF Len(children) > MAX_MOVES THEN SCRATCH_OVERFLOW
                      ELSE fastest_first_loop(children,
                                              [j \in 1 .. Len(children) |->
                                                  children[j].opp_mobility],
                                              0, alpha, beta, 0 - INFINITY, depth)

\* The root loop of c_solve_game over children[i..]:
\* <<max_score, index, new_move>>, new_move being the bit that index was
\* taken from; a mark of undefined behaviour ends it.
RECURSIVE solve_loop(_, _, _, _, _, _)
solve_loop(children, i, depth, max_score, index, best_move) ==
    IF i > Len(children) THEN <<max_score, index, best_move>>
    ELSE LET score == neg(negamax_fastest_first(children[i].opp_board,
                                                children[i].player_board,
                                                0 - INITIAL_BOUND, INITIAL_BOUND,
                                                FALSE, depth))
         IN  IF score \in Faults THEN <<score, index, best_move>>
             ELSE IF score > max_score
             THEN solve_loop(children, i + 1, depth, score,
                             move_index(children[i].new_move), children[i].new_move)
             ELSE solve_loop(children, i + 1, depth, max_score, index, best_move)

c_solve_game_search(p, o) ==
    LET depth == MAX_SCORE - c_popcount_64(p) - c_popcount_64(o)
        moves == c_find_moves(p, o)
    IN  solve_loop(gen_children(p, o, moves), 1, depth, 0 - INFINITY, -1, {})

\* Mutant: the result is filled in from index without the test for no move.
c_solve_game_result_unchecked(r) ==
    [x |-> r[2] % BOARD_SIZE, y |-> r[2] \div BOARD_SIZE, score |-> r[1]]

\* The move record c_solve_game fills in after its loop.
c_solve_game_result(r) ==
    IF r[2] < 0
    THEN [x |-> -1, y |-> -1, score |-> INFINITY]
    ELSE [x |-> r[2] % BOARD_SIZE, y |-> r[2] \div BOARD_SIZE, score |-> r[1]]

c_solve_game(p, o) == c_solve_game_result(c_solve_game_search(p, o))

\* ------------------------------------------------------------------------
\* The array interface of bitboard.pyx and the adapter of solver.pyx
\* ------------------------------------------------------------------------
\* A piece array is an 8x8 boolean matrix arr[y][x]; a byte string is a
\* sequence of 8 numbers in 0 .. 255.
Pow2(n) == 2 ^ n

\* Mutant: np.packbits with bitorder='little'.
packbits_little(arr) ==
    LET bit(k, j) == IF arr[k - 1][j] THEN Pow2(j) ELSE 0
    IN  [k \in 1 .. BOARD_SIZE |->
            bit(k, 0) + bit(k, 1) + bit(k, 2) + bit(k, 3)
            + bit(k, 4) + bit(k, 5) + bit(k, 6) + bit(k, 7)]

\* np.packbits(arr, bitorder='big'): the array is flattened row by row and
\* every 8 cells make a byte, the first cell in the most significant bit.
packbits(arr) ==
    LET bit(k, j) == IF arr[k - 1][j] THEN Pow2(7 - j) ELSE 0
    IN  [k \in 1 .. BOARD_SIZE |->
            bit(k, 0) + bit(k, 1) + bit(k, 2) + bit(k, 3)
            + bit(k, 4) + bit(k, 5) + bit(k, 6) + bit(k, 7)]

\* int.from_bytes(bytestring, byteorder='big'): the first byte is the most
\* significant one.
from_bytes(bytestring) ==
    {b \in Squares :
        (bytestring[BOARD_SIZE - (b \div 8)] \div Pow2(b % 8)) % 2 = 1}

serialize_piecearray(arr) == from_bytes(packbits(arr))

\* serialized.to_bytes(length=BOARD_SIZE, byteorder='big').
to_bytes(serialized) ==
    LET bit(k, j) == IF (BOARD_SIZE - k) * 8 + j \in serialized THEN Pow2(j) ELSE 0
    IN  [k \in 1 .. BOARD_SIZE |->
            bit(k, 0) + bit(k, 1) + bit(k, 2) + bit(k, 3)
            + bit(k, 4) + bit(k, 5) + bit(k, 6) + bit(k, 7)]

\* np.unpackbits(byte_arr): 64 bits, each byte most significant bit first.
unpackbits(byte_arr) ==
    [i \in 1 .. WordBits |->
        (byte_arr[((i - 1) \div 8) + 1] \div Pow2(7 - ((i - 1) % 8))) % 2 = 1]

\* np.reshape(flat, (BOARD_SIZE, BOARD_SIZE)).
reshape(flat) ==
    [y \in 0 .. (BOARD_SIZE - 1) |->
        [x \in 0 .. (BOARD_SIZE - 1) |-> flat[y * BOARD_SIZE + x + 1]]]

deserialize_piecearray(serialized) == reshape(unpackbits(to_bytes(serialized)))

\* Mutant: the adapter hands the solver's coordinates on unchanged.
solve_game_return_unreversed(m) == [x |-> m.x, y |-> m.y, score |-> m.score]

\* The tuple solve_game of solver.pyx returns for the record c_move.
solve_game_return(m) == [x |-> 7 - m.x, y |-> 7 - m.y, score |-> m.score]

\* ------------------------------------------------------------------------
\* Bounds and input positions
\* ------------------------------------------------------------------------
NumSeeds == 8
MaxEmpty == 5
MaxPlies == 2

\* A family of dense positions: at most MaxEmpty empty squares, the others
\* split between the two sides by a fixed arithmetic pattern.
SeedEmpty(seed) == {(seed * 11 + k * k * 5 + k * seed * 3) % 64 : k \in 1 .. MaxEmpty}
SeedPlayer(seed) ==
    {s \in Squares \ SeedEmpty(seed) :
        (s * (seed + 2) + (s \div 8) * (seed + 1) + (s % 8) * (s \div 8)) % 5 < 2}
SeedOpp(seed) == Squares \ (SeedEmpty(seed) \cup SeedPlayer(seed))

\* Two positions with more than MAX_MOVES empty squares.  In the first the
\* side to move has one move, after which the other side has 33 moves; in
\* the second the lowest move of the side to move leaves the other side one
\* move, after which the first side has 33 moves.
ManyMovesNode ==
    <<{9, 12, 14, 17, 28, 30, 33, 44, 46, 51, 54, 62},
      {0, 2, 5, 8, 13, 20, 21, 22, 25, 29, 41, 42, 47, 48, 50, 55, 59, 63}>>
ManyMovesChild ==
    <<{6, 7, 10, 12, 13, 14, 17, 19, 25, 26, 33, 37, 41, 44, 45, 46, 47, 48, 49,
       53, 56},
      {15, 18, 36, 38, 52, 54, 57}>>

\* A finished game with two empty corners and 31 disks on each side: the
\* side to move holds the rest of the border and five squares of row 1.
DrawnWithEmpties ==
    LET mine == ({s \in Squares : (s \div 8) \in {0, 7} \/ (s % 8) \in {0, 7}}
                    \ {0, 63}) \cup {10, 11, 12, 13, 14}
    IN  <<mine, Squares \ (mine \cup {0, 63})>>

\* Fixed positions: the standard opening, a run of three opp disks on one
\* row closed by a player disk, a lone corner disk, a board with no move for
\* either side, an opponent-only full board, a board on which only the
\* other side can move, and the three positions above.
Scenarios ==
    { <<{28, 35}, {27, 36}>>,
      <<{33}, {34, 35, 36}>>,
      <<{0}, {}>>,
      <<Squares \ {0, 1}, {}>>,
      <<{}, Squares>>,
      <<{1}, Squares \ {1, 2}>>,
      ManyMovesNode,
      ManyMovesChild,
      DrawnWithEmpties }

InitPositions ==
    Scenarios \cup {<<SeedPlayer(seed), SeedOpp(seed)>> : seed \in 1 .. NumSeeds}

\* ------------------------------------------------------------------------
\* State
\* ------------------------------------------------------------------------
NoMove == [x |-> 0, y |-> 0, score |-> 0]

VARIABLES
    player,           \* the caller's position: the side to move ...
    opp,              \* ... and the other side
    n_plies,          \* moves the caller has applied with resolve_move
    pc,               \* "ready", "rollout", "rolled", "solved", or "crashed" /
                      \* "undefined" after a search with undefined behaviour
    active_bitboard,  \* locals of _random_rollout
    other_bitboard,
    same_player,
    just_passed,
    n_iter,           \* completed iterations of the playout loop (history)
    result,           \* the Rollout_Result returned, "NONE" before
    c_move,           \* the move record returned by c_solve_game
    best_move,        \* new_move of the root iteration that set index (history)
    py_move,          \* the tuple returned by solve_game of solver.pyx
    fault             \* "none", or the undefined behaviour the search ran into

vars == <<player, opp, n_plies, pc, active_bitboard, other_bitboard,
          same_player, just_passed, n_iter, result, c_move, best_move, py_move,
          fault>>

solve_vars == <<c_move, best_move, py_move, fault>>

rollout_vars == <<active_bitboard, other_bitboard, same_player, just_passed,
                  n_iter, result>>

Init ==
    /\ \E pos \in InitPositions : player = pos[1] /\ opp = pos[2]
    /\ n_plies = 0
    /\ pc = "ready"
    /\ active_bitboard = {}
    /\ other_bitboard = {}
    /\ same_player = TRUE
    /\ just_passed = FALSE
    /\ n_iter = 0
    /\ result = "NONE"
    /\ c_move = NoMove
    /\ best_move = {}
    /\ py_move = NoMove
    /\ fault = "none"

\* The resolve_move adapter of bitboard.pyx on a legal square (x, y); the
\* caller then hands the turn to the other side.
ResolveMove(x, y) ==
    LET move_bitboard == c_make_singleton_bitboard(x, y)
        new_disks == c_resolve_move(player, opp, move_bitboard)
    IN  /\ pc = "ready"
        /\ n_plies < MaxPlies
        /\ move_bitboard \subseteq c_find_moves(player, opp)
        /\ opp' = bxor(player, new_disks) \cup move_bitboard
        /\ player' = bxor(opp, new_disks)
        /\ n_plies' = n_plies + 1
        /\ UNCHANGED <<pc, rollout_vars, solve_vars>>

\* _random_rollout is entered: its locals are initialised.
RolloutStart ==
    /\ pc = "ready"
    /\ Cardinality(bnot(player \cup opp)) <= MaxEmpty
    /\ pc' = "rollout"
    /\ active_bitboard' = player
    /\ other_bitboard' = opp
    /\ same_player' = TRUE
    /\ just_passed' = FALSE
    /\ n_iter' = 0
    /\ UNCHANGED <<player, opp, n_plies, result, solve_vars>>

\* One iteration of the playout loop that makes a move; loc_idx stands for
\* rand() % n_moves.
RolloutMove ==
    /\ pc = "rollout"
    /\ LET moves == c_find_moves(active_bitboard, other_bitboard)
       IN  /\ moves # {}
           /\ \E loc_idx \in 0 .. (c_popcount_64(moves) - 1) :
                LET new_move == random_select(moves, loc_idx)
                    new_disks == c_resolve_move(active_bitboard, other_bitboard,
                                                new_move)
                IN  /\ other_bitboard' = bxor(active_bitboard, new_disks) \cup new_move
                    /\ active_bitboard' = bxor(other_bitboard, new_disks)
    /\ just_passed' = FALSE
    /\ same_player' = ~same_player
    /\ n_iter' = n_iter + 1
    /\ UNCHANGED <<player, opp, n_plies, pc, result, solve_vars>>

\* Mutant: a pass does not set just_passed.
RolloutPass_not_recorded ==
    /\ pc = "rollout"
    /\ c_find_moves(active_bitboard, other_bitboard) = {}
    /\ ~just_passed
    /\ just_passed' = FALSE
    /\ same_player' = ~same_player
    /\ active_bitboard' = other_bitboard
    /\ other_bitboard' = active_bitboard
    /\ n_iter' = n_iter + 1
    /\ UNCHANGED <<player, opp, n_plies, pc, result, solve_vars>>

\* One iteration of the playout loop that passes.
RolloutPass ==
    /\ pc = "rollout"
    /\ c_find_moves(active_bitboard, other_bitboard) = {}
    /\ ~just_passed
    /\ just_passed' = TRUE
    /\ same_player' = ~same_player
    /\ active_bitboard' = other_bitboard
    /\ other_bitboard' = active_bitboard
    /\ n_iter' = n_iter + 1
    /\ UNCHANGED <<player, opp, n_plies, pc, result, solve_vars>>

\* The second pass in a row: the loop breaks and the result is returned.
RolloutExit ==
    /\ pc = "rollout"
    /\ c_find_moves(active_bitboard, other_bitboard) = {}
    /\ just_passed
    /\ result' = rollout_score(active_bitboard, other_bitboard, same_player)
    /\ pc' = "rolled"
    /\ UNCHANGED <<player, opp, n_plies, active_bitboard, other_bitboard,
                   same_player, just_passed, n_iter, solve_vars>>

\* What a search with undefined behaviour may hand back, if it returns.
UndefinedMoves ==
    { NoMove,
      [x |-> -1, y |-> -1, score |-> INFINITY],
      [x |-> 7, y |-> 7, score |-> 0 - INFINITY] }

FaultName(v) ==
    IF v = SCRATCH_OVERFLOW THEN "scratch_overflow"
    ELSE IF v = BAD_INDEX THEN "best_index"
    ELSE "none"

\* solve_game of solver.pyx on the caller's position, given as piece arrays:
\* the arrays are serialized, c_solve_game runs, and the coordinates of its
\* record are reversed.  It is run on the positions whose search ends within
\* the bounds: those with at most MaxEmpty empty squares, and the two
\* positions whose search stops in its first node.
SolveGame ==
    /\ pc = "ready"
    /\ \/ Cardinality(bnot(player \cup opp)) <= MaxEmpty
       \/ <<player, opp>> \in {ManyMovesNode, ManyMovesChild}
    /\ LET player_arr == deserialize_piecearray(player)
           opp_arr == deserialize_piecearray(opp)
       IN  \E r \in {c_solve_game_search(serialize_piecearray(player_arr),
                                        serialize_piecearray(opp_arr))} :
           IF r[1] \in Faults
           THEN /\ pc' \in {"crashed", "undefined"}
                /\ fault' = FaultName(r[1])
                /\ c_move' \in UndefinedMoves
                /\ best_move' = r[3]
           ELSE /\ pc' = "solved"
                /\ fault' = "none"
                /\ c_move' = c_solve_game_result(r)
                /\ best_move' = r[3]
    /\ py_move' = solve_game_return(c_move')
    /\ UNCHANGED <<player, opp, n_plies, rollout_vars>>

Next ==
    \/ \E x \in 0 .. 7, y \in 0 .. 7 : ResolveMove(x, y)
    \/ RolloutStart
    \/ RolloutMove
    \/ RolloutPass
    \/ RolloutExit
    \/ SolveGame

Spec == Init /\ [][Next]_vars

\* ------------------------------------------------------------------------
\* Reference notions of the rules of the game, by rows and columns
\* ------------------------------------------------------------------------
Dirs == {d \in (-1 .. 1) \X (-1 .. 1) : d # <<0, 0>>}

\* The square i steps from s in direction d, or -1 when that leaves the board.
At(s, d, i) ==
    LET r == (s \div 8) + i * d[1]
        c == (s % 8) + i * d[2]
    IN  IF r \in 0 .. 7 /\ c \in 0 .. 7 THEN r * 8 + c ELSE -1

\* The lengths n of a run of n >= 1 disks of o starting next to s in
\* direction d and immediately followed by a disk of p.
Brackets(p, o, s, d) ==
    {n \in 1 .. 6 : /\ \A i \in 1 .. n : At(s, d, i) \in o
                    /\ At(s, d, n + 1) \in p}

RefMoves(p, o) ==
    {s \in Squares \ (p \cup o) : \E d \in Dirs : Brackets(p, o, s, d) # {}}

RefFlips(p, o, s) ==
    UNION {{At(s, d, i) : i \in 1 .. n} : <<d, n>> \in
             {dn \in Dirs \X (1 .. 6) : dn[2] \in Brackets(p, o, s, dn[1])}}

\* The position a state works on, seen from either side: the playout's
\* boards while a playout runs, the caller's boards otherwise.
Positions ==
    IF pc \in {"rollout", "rolled"}
    THEN {<<active_bitboard, other_bitboard>>, <<other_bitboard, active_bitboard>>}
    ELSE {<<player, opp>>, <<opp, player>>}

\* ------------------------------------------------------------------------
\* Claims
\* ------------------------------------------------------------------------
\* C1: for every position with player & opp == 0, find_moves(player, opp) is
\* exactly the set of empty squares that have, in at least one of the 8
\* directions, a contiguous on-board run of one or more opp disks starting
\* next to them and immediately followed by a player disk.
C1_FindMovesExact ==
    \A pos \in Positions : c_find_moves(pos[1], pos[2]) = RefMoves(pos[1], pos[2])

\* A played position with a legal move over a run of at least two disks, and
\* with an empty square on the H file that is no move although the bits just
\* above it in the word (the start of the next row) hold an opp disk followed
\* by a player disk.
C1_Witness ==
    /\ n_plies > 0
    /\ \E s \in c_find_moves(player, opp), d \in Dirs :
          \E n \in Brackets(player, opp, s, d) : n >= 2
    /\ \E s \in (Squares \ (player \cup opp)) \ c_find_moves(player, opp) :
          s % 8 = 7 /\ s + 1 \in opp /\ s + 2 \in player

\* C2: for every position with player & opp == 0 and every singleton
\* new_disk on an empty square, resolve_move returns exactly the opp disks
\* lying on a contiguous run that starts next to new_disk in one of the 8
\* directions and ends immediately before a player disk; the result is a
\* subset of opp and holds neither new_disk nor a player disk.
C2_ResolveMoveExact ==
    \A pos \in Positions : \A s \in Squares \ (pos[1] \cup pos[2]) :
        LET flipped == c_resolve_move(pos[1], pos[2], {s})
        IN  /\ flipped = RefFlips(pos[1], pos[2], s)
            /\ flipped \subseteq pos[2]
            /\ s \notin flipped
            /\ flipped \cap pos[1] = {}

\* A played position in which some empty square flips disks in at least two
\* directions, one of them over a run of at least two disks.
C2_Witness ==
    /\ n_plies > 0
    /\ \E s \in Squares \ (player \cup opp) :
          /\ Cardinality({d \in Dirs : Brackets(player, opp, s, d) # {}}) >= 2
          /\ Cardinality(c_resolve_move(player, opp, {s})) >= 3

\* C3: for every position with player & opp == 0, every bit of
\* find_moves(player, opp) is on an empty square and resolve_move on it
\* returns a nonzero mask.
C3_MovesLegal ==
    \A pos \in Positions : \A b \in c_find_moves(pos[1], pos[2]) :
        /\ {b} \cap (pos[1] \cup pos[2]) = {}
        /\ c_resolve_move(pos[1], pos[2], {b}) # {}

\* A playout position in which the side to move has at least three moves.
C3_Witness ==
    /\ pc = "rollout"
    /\ n_iter > 0
    /\ Cardinality(c_find_moves(active_bitboard, other_bitboard)) >= 3

\* C4: from a position with player & opp == 0, after any sequence of legal
\* moves and passes applied as player' = (player ^ flipped) | new_disk,
\* opp' = opp ^ flipped, the two boards stay disjoint; so are the boards of
\* every child position the solver generates.
C4_Disjoint ==
    /\ player \cap opp = {}
    /\ active_bitboard \cap other_bitboard = {}
    /\ \A pos \in Positions :
          LET children == gen_children(pos[1], pos[2], c_find_moves(pos[1], pos[2]))
          IN  \A i \in 1 .. Len(children) :
                 children[i].player_board \cap children[i].opp_board = {}

\* A playout that has made moves and passed, and a caller's position reached
\* by two moves.
C4_Witness ==
    /\ pc = "rollout"
    /\ just_passed
    /\ n_iter >= 3
    /\ n_plies = 2
    /\ active_bitboard # {}
    /\ other_bitboard # {}

\* C5: stability(player, opp) is a subset of player, and every legal move by
\* either side keeps each stable disk of either side on its owner's board
\* and stable: a disk reported stable is never flipped later.
\* A step that hands the turn over stores the boards exchanged.
TurnStep(p, o, p2, o2) ==
    /\ c_stability(p, o) \subseteq p
    /\ c_stability(p2, o2) \subseteq p2
    /\ c_stability(p, o) \subseteq (o2 \cap c_stability(o2, p2))
    /\ c_stability(o, p) \subseteq (p2 \cap c_stability(p2, o2))

C5_StabilityMonotone ==
    [][/\ (n_plies' = n_plies + 1) => TurnStep(player, opp, player', opp')
       /\ (n_iter' = n_iter + 1) =>
             TurnStep(active_bitboard, other_bitboard,
                      active_bitboard', other_bitboard')]_vars

\* A playout that has made moves with stable disks on both sides.
C5_Witness ==
    /\ pc = "rollout"
    /\ n_iter >= 2
    /\ ~just_passed
    /\ c_stability(active_bitboard, other_bitboard) # {}
    /\ c_stability(other_bitboard, active_bitboard) # {}

\* C6: every player disk whose column, row and two diagonals are each fully
\* occupied from edge to edge is in stability(player, opp), and each of the
\* four line masks of stability holds a square iff the line through that
\* square on that axis is fully occupied from edge to edge.
Line(s, d) == {At(s, d, i) : i \in -7 .. 7} \cap Squares
LineFull(pcs, d) == {s \in Squares : Line(s, d) \subseteq pcs}

C6_LineStable ==
    \A pos \in Positions :
        LET pcs == pos[1] \cup pos[2]
        IN  /\ (pos[1] \cap LineFull(pcs, <<1, 0>>) \cap LineFull(pcs, <<0, 1>>)
                  \cap LineFull(pcs, <<1, 1>>) \cap LineFull(pcs, <<1, -1>>))
                 \subseteq c_stability(pos[1], pos[2])
            /\ stab_vrt(pcs) = LineFull(pcs, <<1, 0>>)
            /\ stab_hrz(pcs) = LineFull(pcs, <<0, 1>>)
            /\ stab_dg1(pcs) = LineFull(pcs, <<1, 1>>)
            /\ stab_dg2(pcs) = LineFull(pcs, <<1, -1>>)

\* C7: random_rollout returns ACTIVE iff in the final position the side that
\* was to move at the start has strictly more disks than the other side,
\* OPPONENT iff strictly fewer, DRAW iff as many.  The starting side holds
\* active_bitboard after an even number of completed iterations.
C7_RolloutResult ==
    pc = "rolled" =>
        LET mine == IF n_iter % 2 = 0 THEN active_bitboard ELSE other_bitboard
            theirs == IF n_iter % 2 = 0 THEN other_bitboard ELSE active_bitboard
        IN  /\ (result = "ACTIVE") = (Cardinality(mine) > Cardinality(theirs))
            /\ (result = "OPPONENT") = (Cardinality(mine) < Cardinality(theirs))
            /\ (result = "DRAW") = (Cardinality(mine) = Cardinality(theirs))

\* A playout won by the starting side that ends with the other side's boards
\* in active_bitboard, after a pass in the middle of the playout.
C7_Witness ==
    /\ pc = "rolled"
    /\ result = "ACTIVE"
    /\ ~same_player
    /\ n_iter >= 2 + Cardinality(active_bitboard \cup other_bitboard)
                   - Cardinality(player \cup opp)

\* C8: the playout loop terminates.  It exits exactly when two consecutive
\* iterations find no legal move; a pass exchanges the boards and changes
\* nothing else on them; every other iteration adds exactly one disk; so
\* the loop makes at most as many moves as there were empty squares, with
\* at most one pass before each move and one before the exit, and while it
\* has not exited an iteration can always run.
MovesMade == Cardinality(active_bitboard \cup other_bitboard)
             - Cardinality(player \cup opp)

C8_Iteration ==
    pc = "rollout" =>
        LET no_move == RefMoves(active_bitboard, other_bitboard) = {}
        IN  /\ (pc' = "rolled") = (no_move /\ just_passed)
            /\ (pc' = "rollout") => (just_passed' = no_move)
            /\ (no_move /\ pc' = "rollout") =>
                  /\ active_bitboard' = other_bitboard
                  /\ other_bitboard' = active_bitboard
            /\ ~no_move =>
                  Cardinality(active_bitboard' \cup other_bitboard')
                    = Cardinality(active_bitboard \cup other_bitboard) + 1

\* While the loop runs an iteration can run: with no legal move the pass or
\* the exit is enabled, and otherwise every draw selects one legal move.
C8_Progress ==
    pc = "rollout" =>
        LET moves == RefMoves(active_bitboard, other_bitboard)
        IN  /\ (moves = {}) => ENABLED (RolloutPass \/ RolloutExit)
            /\ \A loc_idx \in 0 .. (Cardinality(moves) - 1) :
                  /\ random_select(moves, loc_idx) \subseteq moves
                  /\ Cardinality(random_select(moves, loc_idx)) = 1
            /\ MovesMade <= Cardinality(bnot(player \cup opp))
            /\ n_iter <= 2 * MovesMade + (IF just_passed THEN 1 ELSE 0)

C8_RolloutTerminates ==
    /\ [][C8_Iteration]_vars
    /\ []C8_Progress

\* A finished playout that made at least three moves and passed in the
\* middle as well as at the end.
C8_Witness ==
    /\ pc = "rolled"
    /\ MovesMade >= 3
    /\ n_iter >= MovesMade + 3

\* C9: where the side to move has a legal move, the move solve_game returns
\* is legal and keeps the outcome (win, draw or loss) the position has under
\* exhaustive minimax with the game ending on two passes in a row, and the
\* sign of the returned score is the sign of the minimax value.
Sign(v) == IF v > 0 THEN 1 ELSE IF v < 0 THEN -1 ELSE 0

SetMax(S) == CHOOSE v \in S : \A w \in S : w <= v

RECURSIVE Minimax(_, _, _)
Minimax(p, o, passed) ==
    LET ms == RefMoves(p, o)
    IN  IF ms = {}
        THEN IF passed THEN Cardinality(p) - Cardinality(o)
             ELSE 0 - Minimax(o, p, TRUE)
        ELSE SetMax({0 - Minimax(o \ RefFlips(p, o, s),
                                 p \cup RefFlips(p, o, s) \cup {s}, FALSE) : s \in ms})

\* The minimax value, for the side to move, of playing square s.
ValueOf(p, o, s) ==
    0 - Minimax(o \ RefFlips(p, o, s), p \cup RefFlips(p, o, s) \cup {s}, FALSE)

HasMove == RefMoves(player, opp) # {}

C9_SolverOptimal ==
    (pc = "solved" /\ HasMove) =>
        LET s == c_move.y * 8 + c_move.x
            v == Minimax(player, opp, FALSE)
        IN  /\ s \in RefMoves(player, opp)
            /\ Sign(ValueOf(player, opp, s)) = Sign(v)
            /\ Sign(c_move.score) = Sign(v)

\* A solved position deep enough for the fastest-first search, won by the
\* side to move, in which some legal move does not win.
C9_Witness ==
    /\ pc = "solved"
    /\ Cardinality(bnot(player \cup opp)) >= FASTEST_FIRST_CUTOFF
    /\ c_move.score > 0
    /\ \E s \in RefMoves(player, opp) : ValueOf(player, opp, s) <= 0

C11_Sentinel ==
    pc = "solved" =>
        IF c_find_moves(player, opp) = {}
        THEN /\ c_move = [x |-> -1, y |-> -1, score |-> INFINITY]
             /\ best_move = {}
        ELSE /\ c_move.x \in 0 .. 7
             /\ c_move.y \in 0 .. 7
             /\ c_move.score < INFINITY
             /\ best_move # {}

\* A solved position in which the side to move has no move and the other
\* side has one.
C11_Witness ==
    /\ pc = "solved"
    /\ c_find_moves(player, opp) = {}
    /\ c_find_moves(opp, player) # {}
    /\ c_move.score = INFINITY

\* C12: for every position with a legal move, with (x, y, score) the tuple
\* the adapter solve_game returns, make_singleton(x, y) is exactly the bit
\* the solver selected as best move, that bit is set in
\* find_moves(player, opp), and the score is passed on unchanged.
C12_CoordinateReversal ==
    (pc = "solved" /\ c_find_moves(player, opp) # {}) =>
        /\ Cardinality(best_move) = 1
        /\ c_make_singleton_bitboard(py_move.x, py_move.y) = best_move
        /\ best_move \subseteq c_find_moves(player, opp)
        /\ py_move.score = c_move.score

\* A solved position, reached by a move, whose best move is off both
\* diagonals and not the lowest move.
C12_Witness ==
    /\ pc = "solved"
    /\ n_plies > 0
    /\ best_move # {}
    /\ best_move # c_extract_disk(c_find_moves(player, opp))
    /\ py_move.x # py_move.y
    /\ py_move.x + py_move.y # 7

\* C13: serialize and deserialize are mutually inverse:
\* deserialize(serialize(m)) == m for every 8x8 boolean matrix m and
\* serialize(deserialize(b)) == b for every 64-bit word b, the cell at row y,
\* column x of the matrix being bit (7 - y)*8 + (7 - x), so that serialize of
\* the matrix whose only true cell is [y][x] equals make_singleton(x, y).
\* Every board b of a state is the image of its cell matrix m and m is the
\* image of b, which gives both round trips for b and m.
\* The matrix that holds the squares of b under that mapping of cells to bits.
CellMatrix(b) ==
    [y \in 0 .. 7 |-> [x \in 0 .. 7 |-> ((7 - y) * 8 + (7 - x)) \in b]]

C13_SerializeInverse ==
    /\ \A pos \in Positions :
          \A m \in {CellMatrix(pos[1])} :
              /\ deserialize_piecearray(pos[1]) = m
              /\ serialize_piecearray(m) = pos[1]
    /\ (pc = "ready" /\ n_plies = 0) =>
          \A x \in 0 .. 7, y \in 0 .. 7 :
              \A m \in {[r \in 0 .. 7 |-> [c \in 0 .. 7 |-> r = y /\ c = x]]} :
                  \A b \in {serialize_piecearray(m)} :
                      /\ b = c_make_singleton_bitboard(x, y)
                      /\ deserialize_piecearray(b) = m

\* A solved position, reached by a move, whose board for the side to move
\* has a disk whose mirror images in its row, in its column and through the
\* centre are all missing.
C13_Witness ==
    /\ pc = "solved"
    /\ n_plies > 0
    /\ fault = "none"
    /\ \E s \in player :
          /\ (63 - s) \notin player
          /\ ((s \div 8) * 8 + 7 - (s % 8)) \notin player
          /\ ((7 - (s \div 8)) * 8 + (s % 8)) \notin player

\* C14: in the benchmark variant, evaluate(player, opp) at a terminal node,
\* with score = popcount(player) - popcount(opp) and
\* empties = popcount(~(player | opp)), returns score + empties if score > 0,
\* score - empties if score < 0, and 0 if score == 0; consequently
\* evaluate(player, opp) == -evaluate(opp, player) for every terminal
\* position.
C14_BenchmarkEvaluate ==
    \A pos \in Positions :
        (c_find_moves(pos[1], pos[2]) = {} /\ c_find_moves(pos[2], pos[1]) = {}) =>
            LET score == Cardinality(pos[1]) - Cardinality(pos[2])
                empties == Cardinality(Squares \ (pos[1] \cup pos[2]))
            IN  /\ evaluate_benchmark(pos[1], pos[2])
                     = (IF score > 0 THEN score + empties
                        ELSE IF score < 0 THEN score - empties
                        ELSE 0)
                /\ evaluate_benchmark(pos[1], pos[2])
                     = 0 - evaluate_benchmark(pos[2], pos[1])

\* C15: in every deep-search node (depth >= 5) with at least one legal move,
\* each iteration of the selection loop picks a valid index of a child not
\* yet visited (0 <= best_index < n_moves), children are searched in
\* non-decreasing order of the opponent's mobility, no child is searched
\* twice, and the loop stops as soon as alpha >= beta or when all n_moves
\* children have been searched.
\* The values best_index takes over the n_moves iterations of the selection
\* loop when no cut-off ends it early.
RECURSIVE selection_order(_, _)
selection_order(opp_mobilities, i) ==
    IF i >= Len(opp_mobilities) THEN <<>>
    ELSE LET best_index == best_index_of(opp_mobilities)
         IN  <<best_index>>
             \o selection_order(IF best_index < 0 THEN opp_mobilities
                                ELSE [opp_mobilities EXCEPT ![best_index + 1] =
                                         MAX_MOVES + 1],
                                i + 1)

\* The deep-search nodes entered from the root: one per root move, when the
\* root has at least FASTEST_FIRST_CUTOFF empty squares.
RootNodes ==
    IF Cardinality(bnot(player \cup opp)) >= FASTEST_FIRST_CUTOFF
    THEN LET children == gen_children(player, opp, c_find_moves(player, opp))
         IN  {<<children[i].opp_board, children[i].player_board>> :
                 i \in 1 .. Len(children)}
    ELSE {}

Searched == pc \in {"solved", "crashed", "undefined"}

C15_SelectionLoop ==
    Searched =>
        /\ fault # "best_index"
        /\ \A node \in RootNodes :
              LET children == gen_children(node[1], node[2],
                                           c_find_moves(node[1], node[2]))
                  n_moves == Len(children)
                  opp_mobilities == [j \in 1 .. n_moves |-> children[j].opp_mobility]
                  order == selection_order(opp_mobilities, 0)
              IN  (n_moves >= 1 /\ n_moves <= MAX_MOVES) =>
                     /\ \A k \in 1 .. n_moves : order[k] \in 0 .. (n_moves - 1)
                     /\ \A k, l \in 1 .. n_moves : (k < l) =>
                           /\ order[k] # order[l]
                           /\ opp_mobilities[order[k] + 1]
                                <= opp_mobilities[order[l] + 1]

\* C16: in every node visited by the inner search, plain or fastest-first,
\* for every position with player & opp == 0 passed to solve_game, the
\* number of child positions generated satisfies n_moves <= MAX_MOVES = 32,
\* so every write to the scratch arrays player_boards, opp_boards and
\* opp_mobilities is within bounds.
\* The node entered first, for the lowest root move, is always visited; so
\* is the node it hands the turn to when it has no move.
FirstNode ==
    LET children == gen_children(player, opp, c_find_moves(player, opp))
    IN  <<children[1].opp_board, children[1].player_board>>

C16_ScratchInBounds ==
    Searched =>
        /\ player \cap opp = {}
        /\ fault # "scratch_overflow"
        /\ (c_find_moves(player, opp) # {}) =>
              /\ mobility(FirstNode[1], FirstNode[2]) <= MAX_MOVES
              /\ (mobility(FirstNode[1], FirstNode[2]) = 0) =>
                    mobility(FirstNode[2], FirstNode[1]) <= MAX_MOVES
====
